---- MODULE Spec2Model ----
(***************************************************************************)
(* The version-monitoring engine of scraper.py: load_history, the          *)
(* per-standard loop of run_monitor with its fetch/extract strategies,     *)
(* the end-of-run metadata update and save_history, and main's             *)
(* notification phase and failure handler.                                 *)
(*                                                                         *)
(* Python values: None is the string NoneV, a dict is a function whose     *)
(* DOMAIN is its set of keys, a list is a sequence, a timestamp string is  *)
(* TimeStr(clock).                                                         *)
(***************************************************************************)
EXTENDS Integers, Sequences, FiniteSets, TLC

\* ------------------------------------------------------------ constants
MAX_RETRIES == 3
HEARTBEAT_DAY == 0
HISTORY_CAP == 100
TELEGRAM_ERROR_MAX == 1500

\* ------------------------------------------------------------ bounds
\* standards in the catalog
NumStd == 2
\* runs the scheduler starts
MaxRuns == 2

\* ------------------------------------------------------------ values
NoneV == "None"
EmptyDict == [k \in {} |-> NoneV]

\* Python truthiness of an Optional[str]
Truthy(v) == v # NoneV /\ v # ""

Has(d, k) == k \in DOMAIN d
Get(d, k, default) == IF k \in DOMAIN d THEN d[k] ELSE default
Put(d, k, v) == [x \in (DOMAIN d) \cup {k} |-> IF x = k THEN v ELSE d[x]]

\* (mutant) list.append(x)
InsertAtEnd(list, x) == list \o <<x>>

\* list.insert(0, x)
Insert0(list, x) == <<x>> \o list

\* list[:n]
Take(list, n) == IF Len(list) <= n THEN list ELSE SubSeq(list, 1, n)

TimeStr(t) == "T" \o ToString(t)

\* hashlib.md5(text).hexdigest()[:12]; a body is the response text, named by
\* a number, and bodies with different numbers have different digests
Fingerprint(body) == "md5:" \o ToString(body)

\* ------------------------------------------------------------ responses
\* A successful response carries a document.  What each strategy reads of it:
\*  FCC_CFR  json ("dict" or "list": the shape of response.json()), data (the
\*           dict), body
\*  ISED     segs: the document as a sequence of segments, each a run of
\*           tokens that is either text or markup (tags, attributes); a token
\*           is [cls, txt, ndig, comma] with cls in issue, month, num, other
\*  ETSI     links: the <a href> elements, each [dirs, label_dirs, pdf, vcode]
\*           where a dir is [ver, status]; words: the text tokens [cls, num]
\*  every    body (the response text) and raises (parsing raises an exception
\*           that is not a RequestException)
Tok(cls, txt, ndig, comma) == [cls |-> cls, txt |-> txt, ndig |-> ndig, comma |-> comma]
Word(txt) == Tok("other", txt, 0, FALSE)
Num(txt, ndig) == Tok("num", txt, ndig, FALSE)
NumComma(txt, ndig) == Tok("num", txt, ndig, TRUE)
Month(txt) == Tok("month", txt, 0, FALSE)
IssueWord == Tok("issue", "Issue", 0, FALSE)

RECURSIVE Flatten(_)
Flatten(seqs) == IF seqs = <<>> THEN <<>> ELSE Head(seqs) \o Flatten(Tail(seqs))

\* soup.get_text(separator=" ", strip=True): the text segments, joined
PageText(segs) ==
    Flatten([i \in 1..Len(segs) |-> IF segs[i].markup THEN <<>> ELSE segs[i].toks])

\* re.search(r"Issue\s+(\d+)", text).group(1), or NoneV
IssueSearch(toks) ==
    LET hits == {i \in 1..(Len(toks) - 1) : toks[i].cls = "issue" /\ toks[i + 1].cls = "num"}
    IN  IF hits = {} THEN NoneV
        ELSE toks[(CHOOSE i \in hits : \A j \in hits : i <= j) + 1].txt

\* the same search on response.text: a tag between two tokens separates them
RECURSIVE RawIssueSearch(_)
RawIssueSearch(segs) ==
    IF segs = <<>> THEN NoneV
    ELSE IF IssueSearch(Head(segs).toks) # NoneV THEN IssueSearch(Head(segs).toks)
    ELSE RawIssueSearch(Tail(segs))

\* re.search(rf"({months}\s+\d{{1,2}},?\s+\d{{4}})", text).group(1), or NoneV
DateSearchFull(toks) ==
    LET hits == {i \in 1..(Len(toks) - 2) :
                    /\ toks[i].cls = "month"
                    /\ toks[i + 1].cls = "num" /\ toks[i + 1].ndig \in {1, 2}
                    /\ toks[i + 2].cls = "num" /\ toks[i + 2].ndig = 4}
    IN  IF hits = {} THEN NoneV
        ELSE LET i == CHOOSE i \in hits : \A j \in hits : i <= j
             IN  toks[i].txt \o " " \o toks[i + 1].txt
                    \o (IF toks[i + 1].comma THEN "," ELSE "") \o " " \o toks[i + 2].txt

\* re.search(rf"({months}\s+\d{{4}})", text).group(1), or NoneV
DateSearchMonthYear(toks) ==
    LET hits == {i \in 1..(Len(toks) - 1) :
                    toks[i].cls = "month" /\ toks[i + 1].cls = "num" /\ toks[i + 1].ndig = 4}
    IN  IF hits = {} THEN NoneV
        ELSE LET i == CHOOSE i \in hits : \A j \in hits : i <= j
             IN  toks[i].txt \o " " \o toks[i + 1].txt

Returned(version) == [exc |-> FALSE, version |-> version]
Raised == [exc |-> TRUE, version |-> NoneV]

\* (mutant) the amendment date is looked up before the issue date
EcfrExtractAmendmentFirst(doc) ==
    LET data == doc.data
        versions == IF doc.json = "dict" /\ Has(data, "content_versions")
                    THEN data["content_versions"] ELSE <<>>
        version_date == IF Len(versions) > 0 THEN Get(versions[1], "date", "") ELSE ""
    IN  IF doc.raises THEN Raised
        ELSE IF Truthy(version_date) THEN Returned(version_date)
        ELSE IF doc.json = "dict" /\ Has(data, "meta") /\ Has(data["meta"], "latest_amendment_date")
             THEN Returned(data["meta"]["latest_amendment_date"])
        ELSE IF doc.json = "dict" /\ Has(data, "meta") /\ Has(data["meta"], "latest_issue_date")
             THEN Returned(data["meta"]["latest_issue_date"])
        ELSE Returned(Fingerprint(doc.body))

\* fetch_ecfr_data, the body of the try for one response
EcfrExtract(doc) ==
    LET data == doc.data
        versions == IF doc.json = "dict" /\ Has(data, "content_versions")
                    THEN data["content_versions"] ELSE <<>>
        version_date == IF Len(versions) > 0 THEN Get(versions[1], "date", "") ELSE ""
    IN  IF doc.raises THEN Raised
        ELSE IF Truthy(version_date) THEN Returned(version_date)
        ELSE IF doc.json = "dict" /\ Has(data, "meta") /\ Has(data["meta"], "latest_issue_date")
             THEN Returned(data["meta"]["latest_issue_date"])
        ELSE IF doc.json = "dict" /\ Has(data, "meta") /\ Has(data["meta"], "latest_amendment_date")
             THEN Returned(data["meta"]["latest_amendment_date"])
        ELSE Returned(Fingerprint(doc.body))

\* (mutant) the raw document is not searched
IsedExtractRenderedOnly(doc) ==
    LET page_text == PageText(doc.segs)
        issue_match == IssueSearch(page_text)
        date_match == IF DateSearchFull(page_text) # NoneV THEN DateSearchFull(page_text)
                      ELSE DateSearchMonthYear(page_text)
    IN  IF doc.raises THEN Raised
        ELSE IF issue_match # NoneV /\ date_match # NoneV
             THEN Returned("Issue " \o issue_match \o " (" \o date_match \o ")")
        ELSE Returned(Fingerprint(doc.body))

\* fetch_ised_data, the body of the try for one response
IsedExtract(doc) ==
    LET page_text == PageText(doc.segs)
        issue_match == IssueSearch(page_text)
        date_match == IF DateSearchFull(page_text) # NoneV THEN DateSearchFull(page_text)
                      ELSE DateSearchMonthYear(page_text)
        raw_issue_match == RawIssueSearch(doc.segs)
    IN  IF doc.raises THEN Raised
        ELSE IF issue_match # NoneV /\ date_match # NoneV
             THEN Returned("Issue " \o issue_match \o " (" \o date_match \o ")")
        ELSE IF issue_match = NoneV /\ raw_issue_match # NoneV /\ date_match # NoneV
             THEN Returned("Issue " \o raw_issue_match \o " (" \o date_match \o ")")
        ELSE Returned(Fingerprint(doc.body))

\* re.search(r"(\d{2})\.(\d{2})\.(\d{2})_60", s): the first directory name of
\* s with status 60, as <<major, minor, patch>>, or <<>>
PublishedDir(dirs) ==
    LET hits == {i \in 1..Len(dirs) : dirs[i].status = 60}
    IN  IF hits = {} THEN <<>> ELSE dirs[CHOOSE i \in hits : \A j \in hits : i <= j].ver

\* (mutant) the minor and patch numbers are not compared
VerLessByMajor(a, b) == a[1] < b[1]

\* tuple comparison of (major, minor, patch)
VerLess(a, b) ==
    \/ a[1] < b[1]
    \/ a[1] = b[1] /\ a[2] < b[2]
    \/ a[1] = b[1] /\ a[2] = b[2] /\ a[3] < b[3]

VerStr(v) == "V" \o ToString(v[1]) \o "." \o ToString(v[2]) \o "." \o ToString(v[3])

\* the (major, minor, patch) of every link whose href, or else whose label,
\* names a published directory
PublishedVersions(links) ==
    {v \in {IF PublishedDir(links[i].dirs) # <<>> THEN PublishedDir(links[i].dirs)
            ELSE PublishedDir(links[i].label_dirs) : i \in 1..Len(links)} : v # <<>>}

\* (mutant) the text is searched before the attachments
EtsiExtractTextFirst(doc) ==
    LET published_versions == PublishedVersions(doc.links)
        pdfs == {i \in 1..Len(doc.links) : doc.links[i].pdf /\ doc.links[i].vcode # <<>>}
        texts == {i \in 1..Len(doc.words) : doc.words[i].cls \in {"Version", "V"}}
    IN  IF doc.raises THEN Raised
        ELSE IF published_versions # {}
             THEN Returned(VerStr(CHOOSE v \in published_versions :
                                    \A w \in published_versions : ~VerLess(v, w)))
        ELSE IF texts # {}
             THEN Returned("V" \o doc.words[CHOOSE i \in texts : \A j \in texts : i <= j].num)
        ELSE IF pdfs # {}
             THEN Returned(VerStr(doc.links[CHOOSE i \in pdfs : \A j \in pdfs : i <= j].vcode))
        ELSE Returned(Fingerprint(doc.body))

\* fetch_etsi_data, the body of the try for one response
EtsiExtract(doc) ==
    LET published_versions == PublishedVersions(doc.links)
        pdfs == {i \in 1..Len(doc.links) : doc.links[i].pdf /\ doc.links[i].vcode # <<>>}
        texts == {i \in 1..Len(doc.words) : doc.words[i].cls \in {"Version", "V"}}
    IN  IF doc.raises THEN Raised
        ELSE IF published_versions # {}
             THEN Returned(VerStr(CHOOSE v \in published_versions :
                                    \A w \in published_versions : ~VerLess(v, w)))
        ELSE IF pdfs # {}
             THEN Returned(VerStr(doc.links[CHOOSE i \in pdfs : \A j \in pdfs : i <= j].vcode))
        ELSE IF texts # {}
             THEN Returned("V" \o doc.words[CHOOSE i \in texts : \A j \in texts : i <= j].num)
        ELSE Returned(Fingerprint(doc.body))

\* fetch_ansi_data, the body of the try for one response
AnsiExtract(doc) == IF doc.raises THEN Raised ELSE Returned(Fingerprint(doc.body))


\* ------------------------------------------------------------ inputs
Types == {"FCC_CFR", "ISED", "ETSI", "ANSI"}

\* The documents a fetch may return, per source type.
EcfrDocs ==
    << [json |-> "dict", raises |-> FALSE, body |-> 11,
        data |-> [content_versions |-> << [date |-> "2025-01-01"] >>]],
       [json |-> "dict", raises |-> FALSE, body |-> 12,
        data |-> [content_versions |-> << [date |-> "2025-03-01"], [date |-> "2025-01-01"] >>]],
       [json |-> "list", raises |-> TRUE, body |-> 13, data |-> EmptyDict] >>

IsedDocs ==
    << [raises |-> FALSE, body |-> 21,
        segs |-> << [markup |-> FALSE,
                     toks |-> <<IssueWord, Num("4", 1), Month("July"), NumComma("24", 2), Num("2025", 4)>>] >>],
       [raises |-> FALSE, body |-> 22,
        segs |-> << [markup |-> FALSE,
                     toks |-> <<IssueWord, Num("5", 1), Month("February"), Num("2026", 4)>>] >>],
       [raises |-> TRUE, body |-> 23, segs |-> << >>] >>

Dir(major, minor, patch, status) == [ver |-> <<major, minor, patch>>, status |-> status]
Link(dirs, label_dirs, pdf, vcode) ==
    [dirs |-> dirs, label_dirs |-> label_dirs, pdf |-> pdf, vcode |-> vcode]

EtsiDocs ==
    << [raises |-> FALSE, body |-> 31, words |-> << >>,
        links |-> << Link(<<Dir(2, 2, 2, 60)>>, << >>, FALSE, << >>),
                     Link(<<Dir(2, 3, 1, 40)>>, << >>, FALSE, << >>) >>],
       [raises |-> FALSE, body |-> 32, words |-> << >>,
        links |-> << Link(<<Dir(2, 2, 2, 60)>>, << >>, FALSE, << >>),
                     Link(<< >>, <<Dir(2, 3, 1, 60)>>, FALSE, << >>) >>],
       [raises |-> TRUE, body |-> 33, words |-> << >>, links |-> << >>] >>

AnsiDocs ==
    << [raises |-> FALSE, body |-> 41], [raises |-> FALSE, body |-> 42] >>

DocsOf(type) ==
    CASE type = "FCC_CFR" -> EcfrDocs
      [] type = "ISED" -> IsedDocs
      [] type = "ETSI" -> EtsiDocs
      [] OTHER -> AnsiDocs

\* the strategy each fetch function applies to a response
Extract(type, doc) ==
    CASE type = "FCC_CFR" -> EcfrExtract(doc)
      [] type = "ISED" -> IsedExtract(doc)
      [] type = "ETSI" -> EtsiExtract(doc)
      [] OTHER -> AnsiExtract(doc)

\* check_standard: the types it dispatches to a fetch function
Dispatched(type) == type \in {"FCC_CFR", "ISED", "ETSI"}

\* the locator the fetch function of the type reads
Locator(standard) ==
    IF standard.type = "FCC_CFR" THEN standard.title ELSE standard.source_url

\* A Standard record of history.json; id is NoneV when the record has no
\* "id" key
Standard(i, type, located, version, keyed) ==
    [id |-> IF keyed THEN "S" \o ToString(i) ELSE NoneV,
     name |-> "Standard " \o ToString(i), type |-> type,
     category |-> type,
     title |-> IF located /\ type = "FCC_CFR" THEN "47" ELSE "",
     source_url |-> IF located /\ type # "FCC_CFR" THEN "https://example/" \o ToString(i) ELSE "",
     current_version |-> version,
     last_checked |-> IF version = NoneV THEN NoneV ELSE TimeStr(0)]

\* the version a standard may hold when a run starts: never checked, or (for
\* a type check_standard dispatches) the version of the first document
StoredVersions(type) ==
    IF Dispatched(type) THEN {NoneV, Extract(type, DocsOf(type)[1]).version} ELSE {NoneV}

Templates ==
    UNION {{[type |-> t, located |-> TRUE, version |-> v, keyed |-> TRUE] :
                v \in StoredVersions(t)} : t \in Types}
        \cup {[type |-> "ISED", located |-> FALSE, version |-> NoneV, keyed |-> TRUE],
              [type |-> "ISED", located |-> TRUE, version |-> NoneV, keyed |-> FALSE]}

\* the standards of the state file, in the order run_monitor iterates them
Catalogs ==
    {[i \in 1..NumStd |-> Standard(i, c[i].type, c[i].located, c[i].version, c[i].keyed)] :
        c \in [1..NumStd -> Templates]}

\* a change log left by earlier runs
Prefilled(n) ==
    [k \in 1..n |->
        [id |-> "S0", name |-> "Standard 0", type |-> "ISED",
         old_version |-> "Issue " \o ToString(n - k), new_version |-> "Issue " \o ToString(n - k + 1),
         detected_at |-> TimeStr(0)]]

InitHistories == {Prefilled(0), Prefilled(HISTORY_CAP - 1)}

\* the state file: missing, or a JSON document, or (after an interrupted
\* write) empty or partial
FileMissing == [state |-> "missing", data |-> EmptyDict]
FileEmpty == [state |-> "empty", data |-> EmptyDict]
FilePartial == [state |-> "partial", data |-> EmptyDict]
FileOk(data) == [state |-> "ok", data |-> data]

InitFiles ==
    {FileMissing}
        \cup {FileOk([metadata |-> EmptyDict, standards |-> c, update_history |-> h]) :
                c \in Catalogs, h \in InitHistories}
        \cup {FileOk([standards |-> c, update_history |-> Prefilled(0)]) :
                c \in {d \in Catalogs : \A i \in 1..NumStd : d[i].type = "ISED" /\ d[i].source_url # ""}}

\* datetime.weekday() is 0 (Monday) to 6; the days a run is tried on
Weekdays == {HEARTBEAT_DAY, 1}

\* the state files sequences of runs start from: standards of two families,
\* all of them never checked or all of them with a stored version
InitRunsFiles ==
    {FileOk([metadata |-> EmptyDict, standards |-> c, update_history |-> h]) :
        c \in {d \in Catalogs :
                /\ \A i \in 1..NumStd :
                        d[i].type \in {"ISED", "ETSI"} /\ Locator(d[i]) # "" /\ d[i].id # NoneV
                /\ \A i, j \in 1..NumStd : (d[i].current_version = NoneV) = (d[j].current_version = NoneV)},
        h \in InitHistories}

\* ------------------------------------------------------------ state
VARIABLES
    disk,           \* history.json
    pc,             \* where main is
    run,            \* runs started so far
    budget,         \* runs the scheduler starts
    clock,          \* what get_current_time_str reads
    env,            \* which channels have credentials in the environment
    history,        \* the dict load_history returned
    idx,            \* position of the per-standard loop
    attempt,        \* the attempt variable of the retry loop
    updates,
    checked_count,
    error_count,
    sent,           \* the channel sends of this run, in order
    today,          \* the weekday is_heartbeat_day read
    fail_write,     \* the failure handler's write: none, written, swallowed
    result,         \* per standard, how its check ended in this run
    fetched,        \* per standard, the document its fetch returned (0: none)
    failures,       \* attempts in a row that raised RequestException in the
                    \* retry loop last entered (0 again once it got a response)
    prevFetched,    \* fetched, of the previous run
    prevEnd,        \* how the previous run ended
    prevDelivered,  \* what became of the updates notification of the previous run
    diskAtStart,    \* the state file when this run started
    diskAtHandler,  \* the state file when main's handler was entered last
    backoffs,       \* the random_delay(2, 5) calls of the retry loop last entered
    requests,       \* the requests.get calls of the per-standard loop of this run
    viewed,         \* what the dashboard made of the state file it read last
    agent,          \* the User-Agent header of the fetch in progress
    agent_calls,    \* the calls of get_user_agent the fetch in progress made
    document,       \* the response a strategy is applied to, apart from a run
    extracted       \* what the strategy returned for it

vars == <<disk, pc, run, budget, clock, env, history, idx, attempt, updates, checked_count,
          error_count, sent, today, fail_write, result, fetched, failures,
          prevFetched, prevEnd, prevDelivered, diskAtStart, diskAtHandler, backoffs, requests, viewed, agent, agent_calls,
          document, extracted>>

NoEnvironment ==
    [EMAIL_HOST_USER |-> "", EMAIL_HOST_PASSWORD |-> "", TELEGRAM_BOT_TOKEN |-> "",
     TELEGRAM_CHAT_ID |-> ""]
NoResults == [i \in 1..NumStd |-> "Pending"]
NoDocs == [i \in 1..NumStd |-> 0]

Started ==
    /\ pc = "idle"
    /\ run = 0
    /\ clock = 0
    /\ env = NoEnvironment
    /\ history = EmptyDict
    /\ idx = 1
    /\ attempt = 0
    /\ updates = << >>
    /\ checked_count = 0
    /\ error_count = 0
    /\ sent = << >>
    /\ today = HEARTBEAT_DAY
    /\ fail_write = "none"
    /\ result = NoResults
    /\ fetched = NoDocs
    /\ failures = 0
    /\ prevFetched = NoDocs
    /\ prevEnd = "idle"
    /\ prevDelivered = "none"
    /\ diskAtStart = disk
    /\ diskAtHandler = disk
    /\ agent = NoneV
    /\ agent_calls = 0
    /\ backoffs = 0
    /\ requests = 0
    /\ viewed = "nothing"

\* no strategy is applied apart from the runs
NoDocument == [family |-> "none"]
NotExtracting == document = NoDocument /\ extracted = Returned(NoneV)

\* one run, from any state file
Init == disk \in InitFiles /\ budget = 1 /\ Started /\ NotExtracting

\* MaxRuns runs, one after the other, from the state files of InitRunsFiles
InitRuns == disk \in InitRunsFiles /\ budget = MaxRuns /\ Started /\ NotExtracting

\* ------------------------------------------------------------ run_monitor
\* load_history on a readable file
LoadHistory(file) ==
    IF file.state = "missing"
    THEN [metadata |-> EmptyDict, standards |-> << >>, update_history |-> << >>]
    ELSE file.data

\* json.load raises on an empty or partial file
LoadRaises(file) == file.state \in {"empty", "partial"}

Standards(h) == Get(h, "standards", << >>)

\* the scheduler starts run n at this time: later than any time the run
\* before it read
RunStart(n) == n * (NumStd + 2)

Ended(p) == p \in {"idle", "done", "raised", "crashed"}

\* what became of the updates notification among the messages of a run: none
\* was dispatched, a channel delivered it, or no channel did (send_email and
\* send_telegram_message returned False, lines 112-114, 135-137, 273-275,
\* 291-293; main does not look at what they return)
Delivery(messages) ==
    LET ups == SelectSeq(messages, LAMBDA m : m.kind = "updates")
    IN  IF ups = << >> THEN "none"
        ELSE IF \E k \in 1..Len(ups) : ups[k].delivered THEN "delivered"
        ELSE "lost"

\* main starts: the module constants are read from the environment, and
\* run_monitor loads the state file
StartRun ==
    /\ Ended(pc)
    /\ run < budget
    /\ run' = run + 1
    /\ clock' = RunStart(run + 1)
    /\ prevFetched' = IF pc = "done" THEN fetched ELSE NoDocs
    /\ prevEnd' = pc
    /\ prevDelivered' = Delivery(sent)
    /\ diskAtStart' = disk
    /\ diskAtHandler' = disk
    /\ idx' = 1
    /\ attempt' = 0
    /\ updates' = << >>
    /\ checked_count' = 0
    /\ error_count' = 0
    /\ sent' = << >>
    /\ fail_write' = "none"
    /\ result' = NoResults
    /\ fetched' = NoDocs
    /\ failures' = 0
    /\ IF LoadRaises(disk)
       THEN history' = EmptyDict /\ pc' = "handler"
       ELSE history' = LoadHistory(disk) /\ pc' = "loop"
    /\ today' = HEARTBEAT_DAY
    /\ env' = NoEnvironment
    /\ UNCHANGED <<disk, budget>>
    /\ backoffs' = 0
    /\ requests' = 0
    /\ UNCHANGED <<viewed, agent, agent_calls, document, extracted>>

\* (mutant) None counts as a prior version
IsUpdateOfNone(old_version, new_version) == old_version # new_version

\* (mutant) the versions are not compared
IsUpdateAlways(old_version, new_version) == Truthy(old_version)

\* line 684: a prior version that differs from the new one
IsUpdate(old_version, new_version) == Truthy(old_version) /\ old_version # new_version

\* line 696: no prior version
IsFirstRecord(old_version) == ~Truthy(old_version)

\* line 671: standard.get("id", "Unknown")
StdId(standard) == IF standard.id = NoneV THEN "Unknown" ELSE standard.id

\* (mutant) the two versions change places
ChangeEventSwapped(standard, old_version, new_version, check_date) ==
    [id |-> StdId(standard), name |-> standard.name, type |-> standard.type,
     old_version |-> new_version, new_version |-> old_version, detected_at |-> check_date]

\* lines 687-694
ChangeEvent(standard, old_version, new_version, check_date) ==
    [id |-> StdId(standard), name |-> standard.name, type |-> standard.type,
     old_version |-> old_version, new_version |-> new_version, detected_at |-> check_date]

\* (mutant) the baseline is written on the first record only
StandardAfterCheckKeepsBaseline(standard, new_version, check_date) ==
    IF ~Truthy(standard.current_version)
    THEN [standard EXCEPT !.last_checked = check_date, !.current_version = new_version]
    ELSE [standard EXCEPT !.last_checked = check_date]

\* (mutant) the check also clears the locator of the standard
StandardAfterCheckUnlocated(standard, new_version, check_date) ==
    [standard EXCEPT !.last_checked = check_date, !.current_version = new_version,
                     !.source_url = ""]

\* lines 680-701: the standard after a check that returned new_version
StandardAfterCheck(standard, new_version, check_date) ==
    IF IsUpdate(standard.current_version, new_version)
            \/ IsFirstRecord(standard.current_version)
    THEN [standard EXCEPT !.last_checked = check_date, !.current_version = new_version]
    ELSE [standard EXCEPT !.last_checked = check_date]

Outcome(old_version, new_version) ==
    IF ~Truthy(new_version) THEN "Failed"
    ELSE IF IsUpdate(old_version, new_version) THEN "Updated"
    ELSE IF IsFirstRecord(old_version) THEN "FirstRecord"
    ELSE "Unchanged"

\* (mutant) a failed check leaves the loop
CheckFailedAborts ==
    /\ error_count' = error_count + 1
    /\ pc' = "handler"
    /\ UNCHANGED <<checked_count, history, updates>>

\* (mutant) a failed check is not counted
CheckFailedUncounted ==
    /\ pc' = "loop"
    /\ UNCHANGED <<checked_count, history, updates, error_count>>

\* lines 702-708: no version, or an exception out of check_standard; the
\* error is counted and the loop goes on
CheckFailed ==
    /\ error_count' = error_count + 1
    /\ pc' = "loop"
    /\ UNCHANGED <<checked_count, history, updates>>

\* lines 678-708, for the value check_standard returned; the fetch is over
Process(new_version, check_date) ==
    LET standard == Standards(history)[idx]
        old_version == standard.current_version
    IN  /\ IF Truthy(new_version)
           THEN /\ checked_count' = checked_count + 1
                /\ history' = [history EXCEPT !["standards"][idx] =
                                    StandardAfterCheck(standard, new_version, check_date)]
                /\ updates' = IF IsUpdate(old_version, new_version)
                              THEN Append(updates, ChangeEvent(standard, old_version, new_version, check_date))
                              ELSE updates
                /\ error_count' = error_count
                /\ pc' = "loop"
           ELSE CheckFailed
        /\ result' = [result EXCEPT ![idx] = Outcome(old_version, new_version)]
        /\ idx' = idx + 1
        /\ attempt' = 0
        /\ agent' = NoneV
        /\ agent_calls' = 0

\* get_user_agent: ua.random, or the fixed default when UserAgent() raises
UserAgents == {"ua.random", "Mozilla/5.0 (Windows NT 10.0; Win64; x64) AppleWebKit/537.36"}

\* check_standard: a type with no fetch function, or a standard with no
\* locator, yields (None, None) without a request; else the fetch function
\* builds its headers, with one call of get_user_agent, and the retry loop
\* starts
CheckStandard ==
    /\ pc = "loop"
    /\ idx <= Len(Standards(history))
    /\ clock' = clock + 1
    /\ LET standard == Standards(history)[idx]
       IN  IF Dispatched(standard.type) /\ Locator(standard) # ""
           THEN /\ pc' = "fetch"
                /\ attempt' = 0
                /\ agent' \in UserAgents
                /\ agent_calls' = 1
                /\ UNCHANGED <<history, idx, updates, checked_count, error_count, result>>
           ELSE Process(NoneV, NoneV)
    /\ failures' = 0
    /\ UNCHANGED <<disk, run, budget, env, sent, today, fail_write, fetched,
                   prevFetched, prevEnd, prevDelivered, diskAtStart, diskAtHandler>>
    /\ backoffs' = 0
    /\ UNCHANGED <<requests, viewed, document, extracted>>

\* (mutant) one attempt more
ExhaustedLate(n) == n >= MAX_RETRIES

\* (mutant) while True: the loop has no last attempt
ExhaustedNever(n) == FALSE

\* the for loop over range(MAX_RETRIES) has no attempt left
Exhausted(n) == n >= MAX_RETRIES - 1

\* line 469: the handler of RequestException sleeps unless the attempt was
\* the last
BackoffDue(n) == n < MAX_RETRIES - 1

\* requests.get or raise_for_status raises RequestException: the handler
\* prints standard['id'], which raises KeyError out of the fetch function
\* when the record has no id; else the next attempt is made, with the same
\* headers, until none is left
FetchFails ==
    /\ pc = "fetch"
    /\ failures' = failures + 1
    /\ IF Exhausted(attempt) \/ Standards(history)[idx].id = NoneV
       THEN Process(NoneV, NoneV)
       ELSE /\ attempt' = attempt + 1
            /\ UNCHANGED <<pc, history, idx, updates, checked_count, error_count, result,
                           agent, agent_calls>>
    /\ UNCHANGED <<disk, run, budget, clock, env, sent, today, fail_write, fetched,
                   prevFetched, prevEnd, prevDelivered, diskAtStart, diskAtHandler>>
    /\ requests' = requests + 1
    /\ backoffs' = IF BackoffDue(attempt) /\ Standards(history)[idx].id # NoneV
                   THEN backoffs + 1 ELSE backoffs
    /\ UNCHANGED <<viewed, document, extracted>>

\* the request succeeds; the strategy returns a version, or raises and the
\* loop is left with (None, None)
FetchResponds ==
    /\ pc = "fetch"
    /\ \E d \in 1..Len(DocsOf(Standards(history)[idx].type)) :
        LET type == Standards(history)[idx].type
            got == Extract(type, DocsOf(type)[d])
        IN  /\ fetched' = [fetched EXCEPT ![idx] = d]
            /\ IF got.exc
               THEN Process(NoneV, NoneV)
               ELSE Process(got.version, TimeStr(clock))
    /\ failures' = 0
    /\ UNCHANGED <<disk, run, budget, clock, env, sent, today, fail_write,
                   prevFetched, prevEnd, prevDelivered, diskAtStart, diskAtHandler>>
    /\ backoffs' = 0
    /\ requests' = requests + 1
    /\ UNCHANGED <<viewed, document, extracted>>

\* an exception leaves run_monitor for main's handler: run_monitor's
\* variables are gone
Unwind ==
    /\ pc' = "handler"
    /\ history' = EmptyDict
    /\ idx' = 1
    /\ attempt' = 0
    /\ updates' = << >>
    /\ checked_count' = 0
    /\ error_count' = 0
    /\ result' = NoResults
    /\ fetched' = NoDocs
    /\ failures' = 0
    /\ backoffs' = 0
    /\ requests' = 0

\* (mutant) a run in which no standard yielded a token is written as fail
MetadataAfterRunFailing(metadata, now, checked, errors) ==
    Put(Put(Put(metadata, "last_run_time", now), "standards_checked", checked),
        "status", IF errors = 0 THEN "success" ELSE IF checked = 0 THEN "fail" ELSE "partial")

\* lines 711-713
MetadataAfterRun(metadata, now, checked, errors) ==
    Put(Put(Put(metadata, "last_run_time", now), "standards_checked", checked),
        "status", IF errors = 0 THEN "success" ELSE "partial")

\* lines 718-719: every update inserted at index 0, in detection order
RECURSIVE InsertAll(_, _)
InsertAll(list, ups) ==
    IF ups = << >> THEN list ELSE InsertAll(Insert0(list, Head(ups)), Tail(ups))

\* (mutant) the list is not cut
RecordUpdatesUncut(h, ups) ==
    IF ups = << >> THEN h
    ELSE Put(h, "update_history", InsertAll(Get(h, "update_history", << >>), ups))

\* lines 716-721
RecordUpdates(h, ups) ==
    IF ups = << >> THEN h
    ELSE Put(h, "update_history", Take(InsertAll(Get(h, "update_history", << >>), ups), HISTORY_CAP))

\* the loop is over: metadata, then the change log (lines 710-721);
\* history["metadata"] raises KeyError when the file has no metadata
FinishRun ==
    /\ pc = "loop"
    /\ idx > Len(Standards(history))
    /\ IF Has(history, "metadata")
       THEN /\ history' = RecordUpdates(
                    Put(history, "metadata",
                        MetadataAfterRun(history["metadata"], TimeStr(clock), checked_count, error_count)),
                    updates)
            /\ pc' = "save"
            /\ requests' = 0
            /\ UNCHANGED <<idx, attempt, updates, checked_count, error_count, result, fetched,
                           failures, backoffs>>
       ELSE Unwind
    /\ UNCHANGED <<disk, run, budget, clock, env, sent, today, fail_write, prevFetched,
                   prevEnd, prevDelivered, diskAtStart, diskAtHandler>>
    /\ UNCHANGED <<viewed, agent, agent_calls, document, extracted>>

\* ------------------------------------------------------------ save_history
\* open(HISTORY_FILE, "w") truncates the file, or raises and leaves it
SaveOpen ==
    /\ pc \in {"save", "h_save"}
    /\ \E ok \in BOOLEAN :
        IF ok
        THEN /\ disk' = FileEmpty
             /\ pc' = IF pc = "save" THEN "dump" ELSE "h_dump"
             /\ UNCHANGED <<fail_write, history, idx, attempt, updates, checked_count,
                            error_count, result, fetched, failures,
                            backoffs, requests>>
        ELSE /\ UNCHANGED disk
             /\ IF pc = "save"
                THEN Unwind /\ UNCHANGED fail_write
                ELSE /\ pc' = "h_notify"
                     /\ fail_write' = "swallowed"
                     /\ UNCHANGED <<history, idx, attempt, updates, checked_count,
                                    error_count, result, fetched, failures,
                            backoffs, requests>>
    /\ UNCHANGED <<run, budget, clock, env, sent, today, prevFetched, prevEnd, prevDelivered, diskAtStart, diskAtHandler>>
    /\ UNCHANGED <<viewed, agent, agent_calls, document, extracted>>

\* (mutant) run_monitor returns before the document is written
SaveDumpDeferred ==
    /\ pc \in {"dump", "h_dump"}
    /\ pc' = IF pc = "dump" THEN "notify" ELSE "h_notify"
    /\ fail_write' = IF pc = "dump" THEN fail_write ELSE "written"
    /\ UNCHANGED <<disk, history, idx, attempt, updates, checked_count, error_count, result,
                   fetched, failures, run, budget, clock, env, sent, today, prevFetched,
                   prevEnd, prevDelivered, diskAtStart, diskAtHandler, backoffs, requests, viewed, agent, agent_calls,
                   document, extracted>>

\* json.dump writes the document, or raises part way
SaveDump ==
    /\ pc \in {"dump", "h_dump"}
    /\ \E ok \in BOOLEAN :
        IF ok
        THEN /\ disk' = FileOk(history)
             /\ pc' = IF pc = "dump" THEN "notify" ELSE "h_notify"
             /\ fail_write' = IF pc = "dump" THEN fail_write ELSE "written"
             /\ UNCHANGED <<history, idx, attempt, updates, checked_count,
                            error_count, result, fetched, failures,
                            backoffs, requests>>
        ELSE /\ disk' = FilePartial
             /\ IF pc = "dump"
                THEN Unwind /\ UNCHANGED fail_write
                ELSE /\ pc' = "h_notify"
                     /\ fail_write' = "swallowed"
                     /\ UNCHANGED <<history, idx, attempt, updates, checked_count,
                                    error_count, result, fetched, failures,
                            backoffs, requests>>
    /\ UNCHANGED <<run, budget, clock, env, sent, today, prevFetched, prevEnd, prevDelivered, diskAtStart, diskAtHandler>>
    /\ UNCHANGED <<viewed, agent, agent_calls, document, extracted>>

\* ------------------------------------------------------------ notifications
\* send_email / send_telegram_message: without credentials nothing is tried;
\* with them the transport delivers, or raises and the exception is caught
Send(kind, channel, configured, transport_ok, body) ==
    [kind |-> kind, channel |-> channel, attempted |-> configured,
     delivered |-> configured /\ transport_ok, body |-> body]

\* os.environ.get(name, ""): a credential is the empty string when the
\* variable is missing or empty
Credentials == {"", "secret"}

\* (mutant) the password is not looked at
EmailConfiguredByUser(e) == Truthy(e.EMAIL_HOST_USER)

\* line 112: not (not EMAIL_HOST_USER or not EMAIL_HOST_PASSWORD)
EmailConfigured(e) == Truthy(e.EMAIL_HOST_USER) /\ Truthy(e.EMAIL_HOST_PASSWORD)

\* line 273: not (not TELEGRAM_BOT_TOKEN or not TELEGRAM_CHAT_ID)
TelegramConfigured(e) == Truthy(e.TELEGRAM_BOT_TOKEN) /\ Truthy(e.TELEGRAM_CHAT_ID)

\* EMAIL_HOST_USER, EMAIL_HOST_PASSWORD, TELEGRAM_BOT_TOKEN, TELEGRAM_CHAT_ID.
\* They are read when the module is loaded and first used by the first send
\* of the run, where they are drawn.  The environments a run is tried in:
\* no credential at all, or one channel with both of its credentials and
\* the other with both, one or none
Environments ==
    {e \in [EMAIL_HOST_USER : Credentials, EMAIL_HOST_PASSWORD : Credentials,
            TELEGRAM_BOT_TOKEN : Credentials, TELEGRAM_CHAT_ID : Credentials] :
        \/ e = NoEnvironment
        \/ Truthy(e.EMAIL_HOST_USER) /\ Truthy(e.EMAIL_HOST_PASSWORD)
        \/ Truthy(e.TELEGRAM_BOT_TOKEN) /\ Truthy(e.TELEGRAM_CHAT_ID)}

\* an error message: str(e), a blank line and the traceback.  Every message
\* is a prefix of one unbounded text, named by its length; marked tells
\* whether the truncation marker has been put after it
ErrorText(n) == [length |-> n, marked |-> FALSE]

\* len(error_message) of the failures a run is tried with
ErrorLengths == {1, TELEGRAM_ERROR_MAX, TELEGRAM_ERROR_MAX + 1, 2 * TELEGRAM_ERROR_MAX}

\* (mutant) a text of exactly the limit is cut too
TruncateErrorAtLimit(text) ==
    IF text.length >= TELEGRAM_ERROR_MAX
    THEN [length |-> TELEGRAM_ERROR_MAX, marked |-> TRUE]
    ELSE text

\* lines 311-312: error_message[:1500] followed by the marker
TruncateError(text) ==
    IF text.length > TELEGRAM_ERROR_MAX
    THEN [length |-> TELEGRAM_ERROR_MAX, marked |-> TRUE]
    ELSE text

\* what the Telegram builder of a kind puts in its message: the error
\* builder cuts the text, the other two use what they are given
TelegramBody(kind, body) == IF kind = "error" THEN TruncateError(body) ELSE body

\* (mutant) the message tells of the first update only
UpdatesBodyFirstOnly(ups) == [events |-> <<Head(ups)>>]

\* send_update_notification and send_telegram_update_notification: one
\* message that lists every update of the list
UpdatesBody(ups) == [events |-> ups]

\* send_heartbeat and send_telegram_heartbeat
HeartbeatBody(checked, errors) ==
    [standards_checked |-> checked, status |-> IF errors = 0 THEN "success" ELSE "partial"]

\* (mutant) an exception of the email transport leaves main's dispatch
DispatchStopsAtFailure(kind, body, e) ==
    \E email_ok, telegram_ok \in BOOLEAN :
        sent' = IF EmailConfigured(e) /\ ~email_ok
                THEN sent \o <<Send(kind, "email", EmailConfigured(e), email_ok, body)>>
                ELSE sent \o <<Send(kind, "email", EmailConfigured(e), email_ok, body),
                               Send(kind, "telegram", TelegramConfigured(e), telegram_ok,
                                    TelegramBody(kind, body))>>

\* the two sends main makes for one kind of notification
Dispatch(kind, body, e) ==
    \E email_ok, telegram_ok \in BOOLEAN :
        sent' = sent \o <<Send(kind, "email", EmailConfigured(e), email_ok, body),
                          Send(kind, "telegram", TelegramConfigured(e), telegram_ok,
                               TelegramBody(kind, body))>>

\* lines 744-747
NotifyUpdates ==
    /\ pc = "notify"
    /\ env' \in Environments
    /\ IF updates # << >> THEN Dispatch("updates", UpdatesBody(updates), env') ELSE UNCHANGED sent
    /\ pc' = "heartbeat"
    /\ UNCHANGED <<disk, run, budget, clock, history, idx, attempt, updates, checked_count,
                   error_count, today, fail_write, result, fetched, failures, prevFetched,
                   prevEnd, prevDelivered, diskAtStart, diskAtHandler>>
    /\ UNCHANGED <<backoffs, requests, viewed, agent, agent_calls, document, extracted>>

\* is_heartbeat_day
IsHeartbeatDay(weekday) == weekday = HEARTBEAT_DAY

\* (mutant) the heartbeat does not look at the updates
HeartbeatDueAnyway(weekday, ups) == IsHeartbeatDay(weekday)

\* line 752
HeartbeatDue(weekday, ups) == IsHeartbeatDay(weekday) /\ ups = << >>

\* lines 750-757
Heartbeat ==
    /\ pc = "heartbeat"
    /\ \E weekday \in Weekdays :
        /\ today' = weekday
        /\ IF HeartbeatDue(weekday, updates) THEN Dispatch("heartbeat", HeartbeatBody(checked_count, error_count), env) ELSE UNCHANGED sent
    /\ pc' = "done"
    /\ UNCHANGED <<disk, run, budget, clock, env, history, idx, attempt, updates, checked_count,
                   error_count, fail_write, result, fetched, failures, prevFetched,
                   prevEnd, prevDelivered, diskAtStart, diskAtHandler>>
    /\ UNCHANGED <<backoffs, requests, viewed, agent, agent_calls, document, extracted>>

\* ------------------------------------------------------------ failure handler
\* (mutant) the status is left as it was
FailMetadataKeepsStatus(metadata, now) == Put(metadata, "last_run_time", now)

\* (mutant) the handler also writes a count of its own
FailMetadataWholesale(metadata, now) ==
    Put(Put(Put(metadata, "last_run_time", now), "status", "fail"), "standards_checked", 0)

\* lines 770-771
FailMetadata(metadata, now) == Put(Put(metadata, "last_run_time", now), "status", "fail")

\* lines 768-774, up to the save: the file is loaded again; an exception
\* (unreadable file, no metadata) is swallowed
HandlerLoad ==
    /\ pc = "handler"
    /\ clock' = clock + 1
    /\ IF LoadRaises(disk) \/ ~Has(LoadHistory(disk), "metadata")
       THEN /\ fail_write' = "swallowed"
            /\ pc' = "h_notify"
            /\ UNCHANGED history
       ELSE /\ history' = Put(LoadHistory(disk), "metadata",
                              FailMetadata(LoadHistory(disk)["metadata"], TimeStr(clock')))
            /\ pc' = "h_save"
            /\ UNCHANGED fail_write
    /\ UNCHANGED <<disk, run, budget, env, idx, attempt, updates, checked_count, error_count, sent,
                   today, result, fetched, failures, prevFetched, prevEnd, prevDelivered, diskAtStart>>
    /\ diskAtHandler' = disk
    /\ UNCHANGED <<backoffs, requests, viewed, agent, agent_calls, document, extracted>>

\* lines 776-778: the error notification, then raise
NotifyError ==
    /\ pc = "h_notify"
    /\ env' \in Environments
    /\ \E n \in ErrorLengths : Dispatch("error", ErrorText(n), env')
    /\ pc' = "raised"
    /\ UNCHANGED <<disk, run, budget, clock, history, idx, attempt, updates, checked_count,
                   error_count, today, fail_write, result, fetched, failures, prevFetched,
                   prevEnd, prevDelivered, diskAtStart, diskAtHandler>>
    /\ UNCHANGED <<backoffs, requests, viewed, agent, agent_calls, document, extracted>>

\* ------------------------------------------------------------ environment
\* the process is killed: what it held in memory is gone, the file stays
Crash ==
    /\ ~Ended(pc)
    /\ pc' = "crashed"
    /\ history' = EmptyDict
    /\ idx' = 1
    /\ attempt' = 0
    /\ updates' = << >>
    /\ checked_count' = 0
    /\ error_count' = 0
    /\ sent' = << >>
    /\ fail_write' = "none"
    /\ result' = NoResults
    /\ fetched' = NoDocs
    /\ failures' = 0
    /\ UNCHANGED <<disk, run, budget, clock, env, today, prevFetched, prevEnd, prevDelivered, diskAtStart, diskAtHandler>>
    /\ agent' = NoneV
    /\ agent_calls' = 0
    /\ backoffs' = 0
    /\ requests' = 0
    /\ UNCHANGED <<viewed, document, extracted>>

\* ------------------------------------------------------------ dashboard
\* app.py load_history: the file is opened for reading; a missing file is
\* reported, an unreadable one is an error, else the data is shown
View(file) ==
    CASE file.state = "missing" -> "missing"
      [] file.state = "ok" -> "data"
      [] OTHER -> "error"

\* the dashboard is opened (or reloaded), at any time
Dashboard ==
    /\ viewed # View(disk)
    /\ viewed' = View(disk)
    /\ UNCHANGED <<disk, pc, run, budget, clock, env, history, idx, attempt, updates, checked_count,
                   error_count, sent, today, fail_write, result, fetched, failures,
                   prevFetched, prevEnd, prevDelivered, diskAtStart, diskAtHandler, backoffs, requests, agent, agent_calls,
                   document, extracted>>

\* the steps of the engine
Next ==
    \/ StartRun
    \/ CheckStandard
    \/ FetchFails
    \/ FetchResponds
    \/ FinishRun
    \/ SaveOpen
    \/ SaveDump
    \/ NotifyUpdates
    \/ Heartbeat
    \/ HandlerLoad
    \/ NotifyError
    \/ Crash

Spec == Init /\ [][Next]_vars

SpecRuns == InitRuns /\ [][Next]_vars

\* the steps of the program itself: the interpreter runs the statement it is
\* at, every blocking call in it returns or raises (requests carry
\* timeout=REQUEST_TIMEOUT, the sleeps are bounded), and nothing but a kill
\* of the process, which is not a step of the program, stops it
Progress ==
    \/ StartRun
    \/ CheckStandard
    \/ FetchFails
    \/ FetchResponds
    \/ FinishRun
    \/ SaveOpen
    \/ SaveDump
    \/ NotifyUpdates
    \/ Heartbeat
    \/ HandlerLoad
    \/ NotifyError

SpecLive == Init /\ [][Next]_vars /\ WF_vars(Progress)

NextView == Next \/ Dashboard

\* one run, with the dashboard opened at any time
SpecView == Init /\ [][NextView]_vars

\* (mutant) the exception is raised only once the file has been written
LoopRaisesAfterSave ==
    /\ pc = "notify"
    /\ pc' = "handler"
    /\ history' = EmptyDict
    /\ idx' = 1
    /\ attempt' = 0
    /\ updates' = << >>
    /\ checked_count' = 0
    /\ error_count' = 0
    /\ failures' = 0
    /\ backoffs' = 0
    /\ requests' = 0
    /\ UNCHANGED <<disk, run, budget, clock, env, sent, today, fail_write, result, fetched,
                   prevFetched, prevEnd, prevDelivered, diskAtStart, diskAtHandler, viewed, agent,
                   agent_calls, document, extracted>>

\* lines 669-674: the statements of the loop body that are not inside the
\* try (standard.get on the record, the print of the progress line) raise,
\* e.g. OSError from a closed standard output; the exception leaves
\* run_monitor before save_history is reached, and run_monitor's history and
\* updates are gone.  The outcomes of the standards checked so far are kept
\* as a record of what the run had found.
LoopRaises ==
    /\ pc = "loop"
    /\ idx <= Len(Standards(history))
    /\ pc' = "handler"
    /\ history' = EmptyDict
    /\ idx' = 1
    /\ attempt' = 0
    /\ updates' = << >>
    /\ checked_count' = 0
    /\ error_count' = 0
    /\ failures' = 0
    /\ backoffs' = 0
    /\ requests' = 0
    /\ UNCHANGED <<disk, run, budget, clock, env, sent, today, fail_write, result, fetched,
                   prevFetched, prevEnd, prevDelivered, diskAtStart, diskAtHandler, viewed, agent,
                   agent_calls, document, extracted>>

NextFail == Next \/ LoopRaises

\* one run, in which the loop body may raise outside its try
SpecFail == Init /\ [][NextFail]_vars

\* ------------------------------------------------------------ strategies
\* The extraction strategies applied to one response each, over families of
\* documents built from small parts.

\* pages of at most this many segments, directory listings of at most this
\* many links
MaxParts == 3

SeqsUpTo(S, n) == UNION {[1..k -> S] : k \in 0..n}

Text(toks) == [markup |-> FALSE, toks |-> toks]
Markup(toks) == [markup |-> TRUE, toks |-> toks]

\* the segments of an ISED detail page: text between tags, and markup
IsedSegments ==
    { Text(<<IssueWord, Num("4", 1)>>),
      Text(<<Month("July"), NumComma("24", 2), Num("2025", 4)>>),
      Text(<<Month("February"), Num("2019", 4)>>),
      Markup(<<IssueWord, Num("7", 1)>>),
      Text(<<IssueWord>>),
      Text(<<Num("3", 1)>>),
      Text(<<Word("RSS-247")>>) }

\* lxml not installed: BeautifulSoup raises whatever the page
IsedPages ==
    {[raises |-> r, body |-> segs, segs |-> segs] :
        segs \in SeqsUpTo(IsedSegments, MaxParts), r \in BOOLEAN}

\* the <a href> elements of an ETSI page: directories by status, a label
\* without a target directory, a label that differs from the target, a
\* target that names two directories, attachments
EtsiLinks ==
    { Link(<<Dir(2, 2, 2, 60)>>, << >>, FALSE, << >>),
      Link(<<Dir(2, 3, 1, 60)>>, << >>, FALSE, << >>),
      Link(<<Dir(2, 4, 1, 40)>>, << >>, FALSE, << >>),
      Link(<< >>, <<Dir(2, 3, 1, 60)>>, FALSE, << >>),
      Link(<<Dir(2, 2, 2, 60)>>, <<Dir(2, 3, 1, 60)>>, FALSE, << >>),
      Link(<<Dir(1, 9, 1, 60), Dir(2, 5, 1, 60)>>, << >>, FALSE, << >>),
      Link(<<Dir(2, 4, 1, 40)>>, << >>, TRUE, <<2, 4, 1>>),
      Link(<< >>, << >>, TRUE, <<2, 2, 2>>) }

EtsiWords == {<< >>, <<[cls |-> "Version", num |-> "2.2.2"]>>}

EtsiPages ==
    {[raises |-> FALSE, body |-> <<links, words>>, words |-> words, links |-> links] :
        links \in SeqsUpTo(EtsiLinks, MaxParts), words \in EtsiWords}
        \cup {[raises |-> TRUE, body |-> << << >>, << >> >>, words |-> << >>, links |-> << >>]}

\* the JSON object of an eCFR versions response, field by field
Merge(a, b) == [k \in (DOMAIN a) \cup (DOMAIN b) |-> IF k \in DOMAIN a THEN a[k] ELSE b[k]]

EcfrVersionsFields ==
    { EmptyDict,
      [content_versions |-> << >>],
      [content_versions |-> << [date |-> "2025-01-01"] >>],
      [content_versions |-> << [date |-> "2025-03-01"], [date |-> "2025-01-01"] >>],
      [content_versions |-> << [date |-> ""] >>],
      [content_versions |-> << [amendment_date |-> "2025-01-01"] >>] }

EcfrMetaFields ==
    { EmptyDict,
      [meta |-> EmptyDict],
      [meta |-> [latest_issue_date |-> "2025-02-02"]],
      [meta |-> [latest_issue_date |-> NoneV]],
      [meta |-> [latest_issue_date |-> ""]],
      [meta |-> [latest_amendment_date |-> "2025-03-03"]],
      [meta |-> [latest_issue_date |-> "2025-02-02", latest_amendment_date |-> "2025-03-03"]] }

\* a JSON object, or a JSON array (neither isinstance test passes)
EcfrObjects ==
    {[json |-> "dict", raises |-> FALSE, body |-> Merge(v, m), data |-> Merge(v, m)] :
        v \in EcfrVersionsFields, m \in EcfrMetaFields}
        \cup {[json |-> "list", raises |-> FALSE, body |-> EmptyDict, data |-> EmptyDict]}

\* every response the strategies are applied to
Documents ==
    {[family |-> "FCC_CFR", response |-> d] : d \in EcfrObjects}
        \cup {[family |-> "ISED", response |-> d] : d \in IsedPages}
        \cup {[family |-> "ETSI", response |-> d] : d \in EtsiPages}
        \cup {[family |-> "ANSI", response |-> AnsiDocs[d]] : d \in 1..Len(AnsiDocs)}

InitExtract ==
    /\ disk = FileMissing
    /\ budget = 0
    /\ Started
    /\ document \in Documents
    /\ extracted = Returned(NoneV)

\* the body of the try of the fetch function of the document's type
ExtractResponse ==
    /\ pc = "idle"
    /\ document # NoDocument
    /\ extracted' = Extract(document.family, document.response)
    /\ pc' = "returned"
    /\ UNCHANGED <<disk, run, budget, clock, env, history, idx, attempt, updates, checked_count,
                   error_count, sent, today, fail_write, result, fetched, failures,
                   prevFetched, prevEnd, prevDelivered, diskAtStart, diskAtHandler, backoffs, requests, viewed, agent,
                   agent_calls, document>>

NextExtract == ExtractResponse

SpecExtract == InitExtract /\ [][NextExtract]_vars


\* ------------------------------------------------------------ properties
\* the standard as the run loaded it
Before(i) == Standards(LoadHistory(diskAtStart))[i]
\* the standard as run_monitor holds it
Now(i) == Standards(history)[i]
\* what the strategy made of the document the check of standard i fetched
Got(i) == Extract(Now(i).type, DocsOf(Now(i).type)[fetched[i]])
\* the check of standard i is over and returned a version
Succeeded(i) ==
    /\ result[i] # "Pending"
    /\ fetched[i] # 0
    /\ ~Got(i).exc
    /\ Truthy(Got(i).version)
Checked == 1..Len(Standards(history))
\* the change log run_monitor holds, and the positions of a standard's events
Log == Get(history, "update_history", << >>)
EventsOf(list, id) == {k \in 1..Len(list) : list[k].id = id}
\* save_history has written what run_monitor holds
Persisted == pc \in {"notify", "heartbeat", "done"}
Recorded == pc \in {"save", "dump"} \/ Persisted

\* C1: a successful check of a standard whose stored current_version is null
\* sets current_version to the extracted token, ends as FirstRecord, queues
\* no event and leaves no event of the standard in update_history, in
\* memory and in the file the run writes.
C1_FirstRecord ==
    \A i \in Checked :
        (Succeeded(i) /\ Before(i).current_version = NoneV) =>
            /\ result[i] = "FirstRecord"
            /\ Now(i).current_version = Got(i).version
            /\ EventsOf(updates, Now(i).id) = {}
            /\ EventsOf(Log, Now(i).id) = {}
            /\ Persisted =>
                /\ disk.data["standards"][i].current_version = Got(i).version
                /\ EventsOf(disk.data["update_history"], Now(i).id) = {}

C1_Witness ==
    /\ pc = "done"
    /\ \E i \in Checked : Succeeded(i) /\ Before(i).current_version = NoneV
    /\ \E i \in Checked : result[i] = "Updated"

\* C2: a successful check whose token differs from a non-null stored
\* current_version overwrites the baseline and queues exactly one event of
\* the standard, with the old and the new version; once the run has recorded
\* its updates the event is in update_history at the head, below only the
\* events the same run detected after it, the list holds at most
\* HISTORY_CAP entries, and the file the run writes holds the same.
C2_Updated ==
    \A i \in Checked :
        (Succeeded(i) /\ Before(i).current_version # NoneV
                /\ Before(i).current_version # Got(i).version) =>
            /\ result[i] = "Updated"
            /\ Now(i).current_version = Got(i).version
            /\ Cardinality(EventsOf(updates, Now(i).id)) = 1
            /\ \A k \in EventsOf(updates, Now(i).id) :
                /\ updates[k].old_version = Before(i).current_version
                /\ updates[k].new_version = Got(i).version
                /\ Recorded =>
                    /\ Len(Log) <= HISTORY_CAP
                    /\ Len(updates) - k + 1 <= HISTORY_CAP =>
                        /\ Log[Len(updates) - k + 1] = updates[k]
                        /\ EventsOf(SubSeq(Log, 1, Len(updates)), Now(i).id) = {Len(updates) - k + 1}
            /\ Persisted =>
                /\ disk.data["standards"][i].current_version = Got(i).version
                /\ disk.data["update_history"] = Log

C2_Witness ==
    /\ pc = "done"
    /\ Len(updates) = 2
    /\ Len(diskAtStart.data["update_history"]) = HISTORY_CAP - 1
    /\ Len(disk.data["update_history"]) = HISTORY_CAP
    /\ \A i \in Checked : result[i] = "Updated"

\* C3: a successful check whose token equals the stored current_version
\* ends as Unchanged, queues no event, and changes nothing of the standard
\* but last_checked, in memory and in the file the run writes.
C3_Unchanged ==
    \A i \in Checked :
        (Succeeded(i) /\ Before(i).current_version = Got(i).version) =>
            /\ result[i] = "Unchanged"
            /\ EventsOf(updates, Now(i).id) = {}
            /\ Now(i) = [Before(i) EXCEPT !.last_checked = Now(i).last_checked]
            /\ Persisted =>
                /\ disk.data["standards"][i] = Now(i)
                /\ EventsOf(disk.data["update_history"], Now(i).id) = {}

C3_Witness ==
    /\ pc = "done"
    /\ \E i \in Checked :
        /\ Succeeded(i)
        /\ Before(i).current_version = Got(i).version
        /\ Now(i).last_checked # Before(i).last_checked

\* C4: the step in which the third attempt of a check raises
\* RequestException ends the check as Failed: the error count grows by one,
\* and the standards (current_version, last_checked), the queued events and
\* the count of checked standards stay as they were.
C4_RetryExhaustion ==
    [][(failures' = MAX_RETRIES /\ failures = MAX_RETRIES - 1) =>
            /\ result'[idx] = "Failed"
            /\ error_count' = error_count + 1
            /\ checked_count' = checked_count
            /\ history' = history
            /\ updates' = updates
            /\ idx' = idx + 1]_vars

C4_Witness ==
    /\ failures = MAX_RETRIES
    /\ idx > 1
    /\ result[idx - 1] = "Failed"
    /\ Before(idx - 1).current_version # NoneV


\* C5: a run that completes after a completed run, every check of it having
\* fetched what the same check fetched in the run before (the same document,
\* or none), queues no event, sends no updates notification and writes the
\* update_history it found.
C5_Idempotent ==
    (pc = "done" /\ prevEnd = "done" /\ fetched = prevFetched) =>
        /\ updates = << >>
        /\ \A k \in 1..Len(sent) : sent[k].kind # "updates"
        /\ \A i \in Checked : result[i] \in {"Unchanged", "Failed"}
        /\ disk.data["update_history"] = diskAtStart.data["update_history"]

C5_Witness ==
    /\ pc = "done" /\ prevEnd = "done" /\ fetched = prevFetched
    /\ \E i \in Checked : fetched[i] = 2 /\ result[i] = "Unchanged"
    /\ \E k \in 1..Len(disk.data["update_history"]) :
            disk.data["update_history"][k].detected_at # TimeStr(0)

\* the state file holds a complete snapshot (or was never written)
Complete(file) == file.state \in {"ok", "missing"}

\* C6: the file is not written during the per-standard loop, and a process
\* killed at any point of a run that found a snapshot leaves the file as the
\* run found it (or, after the save, with the complete new snapshot).
C6_CrashKeepsPriorState ==
    /\ pc \in {"loop", "fetch", "save"} => disk = diskAtStart
    /\ (pc = "crashed" /\ diskAtStart.state = "ok") => (disk = diskAtStart \/ Complete(disk))

\* C7: whoever reads the state file, at any point of a run that found a
\* snapshot, finds the complete prior snapshot or the complete new one.
C7_AtomicOverwrite == diskAtStart.state = "ok" => Complete(disk)

\* the sends of one kind of notification, in order
SendsOf(kind) == SelectSeq(sent, LAMBDA m : m.kind = kind)
\* main sent one notification of the kind: one send on each channel
NotifiedOnce(kind) ==
    /\ Len(SendsOf(kind)) = 2
    /\ SendsOf(kind)[1].channel = "email"
    /\ SendsOf(kind)[2].channel = "telegram"

\* the file holds metadata with status fail and the time of the handler
FailPersisted ==
    /\ disk.state = "ok"
    /\ Has(disk.data, "metadata")
    /\ Get(disk.data["metadata"], "status", NoneV) = "fail"
    /\ Get(disk.data["metadata"], "last_run_time", NoneV) = TimeStr(clock)

C9_HeartbeatSuppression ==
    /\ pc # "done" => SendsOf("heartbeat") = << >>
    /\ pc = "done" =>
        /\ (IsHeartbeatDay(today) /\ updates = << >>) => NotifiedOnce("heartbeat")
        /\ (IsHeartbeatDay(today) /\ updates # << >>) => SendsOf("heartbeat") = << >>
        /\ ~IsHeartbeatDay(today) => SendsOf("heartbeat") = << >>
        /\ SendsOf("updates") # << >> => SendsOf("heartbeat") = << >>

C9_Witness ==
    /\ pc = "done"
    /\ IsHeartbeatDay(today)
    /\ updates = << >>
    /\ NotifiedOnce("heartbeat")
    /\ \E k \in 1..Len(sent) : sent[k].delivered

\* C10: the check of a standard of a type outside the three families, with
\* a source_url, does not fail: its version is the fingerprint of a document.
C10_UnclassifiedFingerprint ==
    \A i \in Checked :
        (result[i] # "Pending" /\ ~(Now(i).type \in {"FCC_CFR", "ISED", "ETSI"})
                /\ Now(i).source_url # "") =>
            /\ result[i] # "Failed"
            /\ \E d \in 1..Len(AnsiDocs) :
                    Now(i).current_version = AnsiExtract(AnsiDocs[d]).version

\* the standards whose check ended in the given ways
Ending(ways) == {i \in Checked : result[i] \in ways}

\* C16: while standards remain, a step of the run (the process not being
\* killed) stays in the per-standard loop and moves at most to the next
\* standard, however the check of the current one ends; the loop is left
\* for the metadata update and the save only when every standard has been
\* checked, each failure counted as one error.
C16_FailureIsolation ==
    [][/\ (pc \in {"loop", "fetch"} /\ idx <= Len(Standards(history)) /\ pc' # "crashed") =>
            /\ pc' \in {"loop", "fetch"}
            /\ idx' \in {idx, idx + 1}
            /\ idx' = idx + 1 => result'[idx] # "Pending"
       /\ (pc = "loop" /\ pc' = "save") =>
            /\ Ending({"Pending"}) = {}
            /\ error_count = Cardinality(Ending({"Failed"}))]_vars

C16_Witness ==
    /\ pc = "done"
    /\ result[1] = "Failed"
    /\ \A i \in Checked : i > 1 => result[i] = "Updated"
    /\ error_count = 1

\* C17: once a run has updated its metadata, status is success when no check
\* failed and partial otherwise, never fail; last_run_time is the time of
\* the update, later than the start of the run; standards_checked is the
\* number of checks that ended Unchanged, Updated or FirstRecord; and the
\* file the run writes holds the same.
C17_EndOfRunMetadata ==
    Recorded =>
        /\ history["metadata"]["status"] =
                (IF Ending({"Failed"}) = {} THEN "success" ELSE "partial")
        /\ history["metadata"]["last_run_time"] = TimeStr(clock)
        /\ clock >= RunStart(run)
        /\ history["metadata"]["standards_checked"] =
                Cardinality(Ending({"Unchanged", "Updated", "FirstRecord"}))
        /\ Persisted => disk.data["metadata"] = history["metadata"]

C17_Witness ==
    /\ pc = "done"
    /\ Checked # {}
    /\ Ending({"Failed"}) = Checked
    /\ disk.data["metadata"]["status"] = "partial"
    /\ disk.data["metadata"]["standards_checked"] = 0

\* C18 as claimed: when the updates notification or the heartbeat is
\* dispatched, the run has not written the state file yet.
C18_DispatchBeforePersist ==
    [][(pc \in {"notify", "heartbeat"} /\ sent' # sent) => disk = diskAtStart]_vars

\* C18 as amended: the state file is written at the end of run_monitor,
\* before the notification phase: when the updates notification or the
\* heartbeat is dispatched the file holds the snapshot of the run, and the
\* file is not written again during or after the dispatch.
C18_PersistBeforeDispatch ==
    [][/\ (pc \in {"notify", "heartbeat"} /\ sent' # sent) =>
            /\ disk = FileOk(history)
            /\ disk # diskAtStart
       /\ pc \in {"notify", "heartbeat", "done"} => disk' = disk]_vars

C18_Witness ==
    /\ pc = "done"
    /\ NotifiedOnce("updates")
    /\ disk = FileOk(history)
    /\ diskAtStart.state = "ok"
    /\ disk # diskAtStart

\* C19: a notification of any kind is a send on the email channel and then
\* a send on the chat channel, each attempted exactly when the channel has
\* its credentials, whatever became of the other; a completed run with
\* updates has dispatched the updates notification, a failed one the error
\* notification; and no send ever takes the run to the failure handler.
C19_ChannelIsolation ==
    /\ \A kind \in {"updates", "heartbeat", "error"} :
            SendsOf(kind) # << >> =>
                /\ NotifiedOnce(kind)
                /\ SendsOf(kind)[1].attempted = EmailConfigured(env)
                /\ SendsOf(kind)[2].attempted = TelegramConfigured(env)
    /\ (pc \in {"heartbeat", "done"} /\ updates # << >>) => NotifiedOnce("updates")
    /\ pc = "raised" => NotifiedOnce("error")
    /\ pc \in {"handler", "h_save", "h_dump", "h_notify"} => sent = << >>
    /\ pc = "raised" => SendsOf("error") = sent

C19_Witness ==
    /\ pc = "done"
    /\ NotifiedOnce("updates")
    /\ SendsOf("updates")[1].attempted /\ ~SendsOf("updates")[1].delivered
    /\ SendsOf("updates")[2].delivered

\* C20: every attempt of a fetch carries an identity chosen for it: at the
\* attempt numbered attempt (from 0) get_user_agent has been called
\* attempt + 1 times.
C20_IdentityPerAttempt == pc = "fetch" => agent_calls = attempt + 1

\* C21: a fetch makes at most MAX_RETRIES attempts; an attempt that raises
\* RequestException is followed by another attempt of the same check, after
\* one backoff delay, unless it was the last, in which case the check ends
\* Failed with no delay; the first response ends the fetch.
C21_RetryPolicy ==
    [][(pc = "fetch" /\ pc' # "crashed") =>
            /\ attempt < MAX_RETRIES
            /\ failures' = failures + 1 =>
                    IF attempt < MAX_RETRIES - 1
                    THEN /\ pc' = "fetch"
                         /\ idx' = idx
                         /\ attempt' = attempt + 1
                         /\ backoffs' = backoffs + 1
                    ELSE /\ result'[idx] = "Failed"
                         /\ idx' = idx + 1
                         /\ backoffs' = backoffs
            /\ fetched' # fetched =>
                    /\ pc' = "loop"
                    /\ idx' = idx + 1]_vars

\* the change log a reader finds in the state file
LogOf(file) == Get(LoadHistory(file), "update_history", << >>)

\* new is old with entries put in front, the oldest entries of old cut off
\* only where the list has reached its capacity
AppendOnly(old, new) ==
    \E n \in 0..Len(new) :
        /\ SubSeq(new, n + 1, Len(new)) = Take(old, Len(new) - n)
        /\ Len(new) - n < Len(old) => Len(new) = HISTORY_CAP

\* C22: when a run has ended, by completing or by failing at top level, the
\* change log in the state file is the log the run found with this run's
\* entries in front: no earlier entry is modified, reordered or lost below
\* the capacity.
C22_AppendOnlyLog ==
    (pc \in {"done", "raised"} /\ diskAtStart.state = "ok") =>
        AppendOnly(LogOf(diskAtStart), LogOf(disk))

\* the instants get_current_time_str can have written, and the instant a
\* written string stands for
TimeTable == [t \in 0..RunStart(MaxRuns + 1) |-> TimeStr(t)]
TimeOf(s) == CHOOSE t \in DOMAIN TimeTable : TimeTable[t] = s

NewestFirst(list) ==
    \A k \in 1..(Len(list) - 1) :
        TimeOf(list[k].detected_at) >= TimeOf(list[k + 1].detected_at)

\* C23: every snapshot the engine writes to the state file holds at most
\* HISTORY_CAP change events, and each event in it was detected no earlier
\* than the event that follows it.
C23_CappedNewestFirst ==
    [][(disk' # disk /\ disk'.state = "ok") =>
            /\ Len(LogOf(disk')) <= HISTORY_CAP
            /\ NewestFirst(LogOf(disk'))]_vars

\* a second run has put its events in front of those of the first run and
\* of the 99 the file held, and the list has been cut at the capacity
C23_Witness ==
    /\ pc = "done"
    /\ run = 2
    /\ Len(updates) = 2
    /\ Len(LogOf(disk)) = HISTORY_CAP
    /\ \E k \in 1..Len(LogOf(diskAtStart)) :
            TimeOf(LogOf(diskAtStart)[k].detected_at) \in RunStart(1)..(RunStart(2) - 1)
    /\ LogOf(disk)[1] = updates[2]
    /\ LogOf(disk)[2] = updates[1]

\* new is the record old with at most current_version and last_checked
\* written
Frame(old, new) ==
    /\ DOMAIN new = DOMAIN old
    /\ \A f \in DOMAIN old \ {"current_version", "last_checked"} : new[f] = old[f]

SameCatalog(olds, news) ==
    /\ Len(news) = Len(olds)
    /\ \A i \in 1..Len(olds) : Frame(olds[i], news[i])

\* C24: the standards a run holds in memory, and the standards of every
\* readable snapshot it leaves in the state file, are the standards it
\* loaded, in the same order, with only current_version and last_checked
\* written; a step of the dashboard or of the notification code leaves the
\* state file as it was.
C24_Frame ==
    /\ [](~LoadRaises(diskAtStart) =>
            /\ pc \in {"loop", "fetch", "save", "dump", "notify", "heartbeat", "done"} =>
                    SameCatalog(Standards(LoadHistory(diskAtStart)), Standards(history))
            /\ disk.state = "ok" =>
                    SameCatalog(Standards(LoadHistory(diskAtStart)), Standards(disk.data)))
    /\ [][(viewed' # viewed \/ pc \in {"notify", "heartbeat", "h_notify"}) => disk' = disk]_vars

\* a run has written a new version for a standard, the notifications have
\* gone out, and the dashboard has read the file while it was being written
C24_Witness ==
    /\ pc = "done"
    /\ viewed = "error"
    /\ sent # << >>
    /\ disk.state = "ok"
    /\ \E i \in Checked :
            /\ Truthy(Before(i).current_version)
            /\ Standards(disk.data)[i].current_version # Before(i).current_version

\* C25: once main is past its updates dispatch, a run that queued change
\* events has sent exactly one updates message on each channel and each
\* message lists all the events of the run, and a run that queued none has
\* sent no updates message; before that point, and in a failed run, no
\* updates message has been sent.
C25_UpdatesOncePerRun ==
    IF pc \in {"heartbeat", "done"} /\ updates # << >>
    THEN /\ NotifiedOnce("updates")
         /\ \A k \in 1..2 : SendsOf("updates")[k].body.events = updates
    ELSE SendsOf("updates") = << >>

\* a run that detected two changes has sent them in one message per channel
C25_Witness ==
    /\ pc = "done"
    /\ Len(updates) = 2
    /\ Len(sent) = 2
    /\ \A k \in 1..2 : Len(sent[k].body.events) = 2 /\ sent[k].attempted

\* the metadata a reader finds in the state file
MetadataOf(file) == Get(LoadHistory(file), "metadata", EmptyDict)

\* the run has ended with a write of the metadata behind it
MetadataWritten == Persisted \/ (pc = "raised" /\ fail_write = "written")

Channels == {"email", "telegram"}
LongestError == CHOOSE n \in ErrorLengths : \A m \in ErrorLengths : m <= n
ErrorsOn(channel) == {k \in 1..Len(sent) : sent[k].kind = "error" /\ sent[k].channel = channel}

\* C27 as claimed: each channel has a maximum length, below the longest error
\* message a run is tried with, and every error message on the channel is
\* either within the maximum and without the marker, or cut to the maximum
\* and followed by the marker.
C27_TruncatedOnEachChannel ==
    \A channel \in Channels :
        \E limit \in ErrorLengths \ {LongestError} :
            \A k \in ErrorsOn(channel) :
                IF sent[k].body.marked
                THEN sent[k].body.length = limit
                ELSE sent[k].body.length <= limit

\* C27 as amended: the Telegram error message is the error text cut to
\* TELEGRAM_ERROR_MAX characters and followed by the marker when the text is
\* longer than that, and the text unmodified otherwise; the email error
\* message carries the text in full, whatever its length.
C27_TruncatedOnTelegram ==
    pc = "raised" =>
        /\ NotifiedOnce("error")
        /\ LET email == SendsOf("error")[1].body
               telegram == SendsOf("error")[2].body
           IN  /\ email.length \in ErrorLengths
               /\ ~email.marked
               /\ IF email.length > TELEGRAM_ERROR_MAX
                  THEN telegram.length = TELEGRAM_ERROR_MAX /\ telegram.marked
                  ELSE telegram = email

\* an error text of twice the limit went out in full by email and cut by
\* Telegram
C27_Witness ==
    /\ pc = "raised"
    /\ SendsOf("error")[1].body = ErrorText(LongestError)
    /\ SendsOf("error")[2].body.length = TELEGRAM_ERROR_MAX
    /\ SendsOf("error")[2].body.marked
    /\ \A k \in 1..2 : SendsOf("error")[k].delivered

\* a credential of the channel is missing or empty in the environment
Unconfigured(channel) ==
    IF channel = "email"
    THEN env.EMAIL_HOST_USER = "" \/ env.EMAIL_HOST_PASSWORD = ""
    ELSE env.TELEGRAM_BOT_TOKEN = "" \/ env.TELEGRAM_CHAT_ID = ""

\* C28: a send on a channel that lacks a credential attempts no delivery and
\* delivers nothing, and the run goes on as with any send: the send on the
\* other channel follows it, a completed run with updates has made both
\* sends of the updates notification and a failed run both sends of the
\* error notification, and the failure handler is never entered from a send.
C28_UnconfiguredIsNoOp ==
    /\ \A k \in 1..Len(sent) :
            Unconfigured(sent[k].channel) => ~sent[k].attempted /\ ~sent[k].delivered
    /\ \A k \in 1..Len(sent) :
            ~Unconfigured(sent[k].channel) => sent[k].attempted
    /\ Len(sent) \in {0, 2}
    /\ sent # << >> => sent[1].channel = "email" /\ sent[2].channel = "telegram"
    /\ (pc = "done" /\ updates # << >>) => Len(SendsOf("updates")) = 2
    /\ pc = "raised" => Len(SendsOf("error")) = 2
    /\ pc \in {"handler", "h_save", "h_dump"} => sent = << >>

\* the email password is missing: the email send was skipped, the Telegram
\* send after it was delivered, and the run completed
C28_Witness ==
    /\ pc = "done"
    /\ env.EMAIL_HOST_USER # ""
    /\ env.EMAIL_HOST_PASSWORD = ""
    /\ Len(sent) = 2
    /\ ~sent[1].attempted
    /\ sent[2].delivered

\* C29: standards are checked one at a time and in order, a check makes at
\* most MAX_RETRIES requests, so that a run has made at most MAX_RETRIES
\* requests for every standard it has been through; and a run that has
\* loaded its standards comes to the end of its persist or to the re-raise
\* of the failure handler, unless the process is killed.
C29_Terminates ==
    /\ [](pc \in {"loop", "fetch"} =>
            /\ idx \in 1..(Len(Standards(history)) + 1)
            /\ attempt < MAX_RETRIES
            /\ requests <= MAX_RETRIES * (idx - 1) + attempt
            /\ pc = "loop" => attempt = 0)
    /\ [][(pc \in {"loop", "fetch"} /\ pc' \in {"loop", "fetch"}) =>
            idx' \in {idx, idx + 1}]_vars
    /\ (pc = "loop") ~> (pc \in {"notify", "raised", "crashed"})

\* every standard of the run took all its attempts and the run was persisted
C29_Witness ==
    /\ pc = "notify"
    /\ disk.state = "ok"
    /\ Len(Standards(history)) = NumStd
    /\ \A i \in Checked : result[i] = "Failed" /\ Dispatched(Now(i).type) /\ Locator(Now(i)) # ""
    /\ MetadataOf(disk)["status"] = "partial"

\* ------------------------------------------------------------ properties of the strategies
\* a strategy has returned for a response of the family that parsed
Parsed(family) ==
    /\ pc = "returned"
    /\ document.family = family
    /\ ~document.response.raises
\* the rendered text of the ISED page, and what it holds
Rendered == PageText(document.response.segs)
HasIssue(toks) == \E i \in 1..(Len(toks) - 1) : toks[i].cls = "issue" /\ toks[i + 1].cls = "num"
HasDate(toks) ==
    \E i \in 1..(Len(toks) - 1) :
        /\ toks[i].cls = "month"
        /\ \/ toks[i + 1].cls = "num" /\ toks[i + 1].ndig = 4
           \/ /\ i + 2 <= Len(toks)
              /\ toks[i + 1].cls = "num" /\ toks[i + 1].ndig \in {1, 2}
              /\ toks[i + 2].cls = "num" /\ toks[i + 2].ndig = 4
RawHasIssue == \E k \in 1..Len(document.response.segs) : HasIssue(document.response.segs[k].toks)

\* C11: for an ISED page whose rendered text holds an issue number and no
\* date of either shape, the version returned is "Issue N", N the first
\* issue number of the text, and not the fingerprint.
C11_PartialToken ==
    (Parsed("ISED") /\ HasIssue(Rendered) /\ ~HasDate(Rendered)) =>
        /\ extracted.version = "Issue " \o IssueSearch(Rendered)
        /\ extracted.version # Fingerprint(document.response.body)

\* C12: for a response that parsed without an exception, whatever the
\* strategy, the version returned is a non-empty token.
C12_EveryResponseYieldsToken ==
    (pc = "returned" /\ ~document.response.raises) =>
        /\ ~extracted.exc
        /\ Truthy(extracted.version)

\* the versions an ETSI page publishes: the directories of status 60 of any
\* target or label, the attachments outside a directory of another status,
\* the version the text states
Unpublished(link) == \E k \in 1..Len(link.dirs) : link.dirs[k].status # 60
PublishedNames(doc) ==
    {VerStr(doc.links[i].dirs[k].ver) :
        <<i, k>> \in {p \in (1..Len(doc.links)) \X (1..MaxParts) :
                        /\ p[2] <= Len(doc.links[p[1]].dirs)
                        /\ doc.links[p[1]].dirs[p[2]].status = 60}}
    \cup {VerStr(doc.links[i].label_dirs[k].ver) :
        <<i, k>> \in {p \in (1..Len(doc.links)) \X (1..MaxParts) :
                        /\ p[2] <= Len(doc.links[p[1]].label_dirs)
                        /\ doc.links[p[1]].label_dirs[p[2]].status = 60}}
    \cup {VerStr(doc.links[i].vcode) :
        i \in {j \in 1..Len(doc.links) : doc.links[j].pdf /\ ~Unpublished(doc.links[j])}}
    \cup {"V" \o doc.words[i].num : i \in 1..Len(doc.words)}

\* C13: the version an ETSI page yields is never the version of a link
\* whose directory has a status other than 60, unless the page also
\* publishes that version.
C13_PublishedOnly ==
    Parsed("ETSI") =>
        \A i \in 1..Len(document.response.links) :
            \A k \in 1..Len(document.response.links[i].dirs) :
                LET dir == document.response.links[i].dirs[k]
                IN  (dir.status # 60 /\ VerStr(dir.ver) \notin PublishedNames(document.response)) =>
                        extracted.version # VerStr(dir.ver)

\* (major, minor, patch) as one number; each part has two digits
Weight(v) == v[1] * 10000 + v[2] * 100 + v[3]
\* every directory of status 60 a target or a label names
AllPublished(links) ==
    {links[p[1]].dirs[p[2]].ver :
        p \in {q \in (1..Len(links)) \X (1..MaxParts) :
                 q[2] <= Len(links[q[1]].dirs) /\ links[q[1]].dirs[q[2]].status = 60}}
    \cup {links[p[1]].label_dirs[p[2]].ver :
        p \in {q \in (1..Len(links)) \X (1..MaxParts) :
                 q[2] <= Len(links[q[1]].label_dirs) /\ links[q[1]].label_dirs[q[2]].status = 60}}
\* what each link contributes: the first directory of status 60 of its
\* target or, when the target names none, of its label
FirstPublished(dirs) ==
    {dirs[k].ver : k \in {j \in 1..Len(dirs) :
                            dirs[j].status = 60 /\ \A h \in 1..(j - 1) : dirs[h].status # 60}}
Collected(links) ==
    UNION {IF FirstPublished(links[i].dirs) # {} THEN FirstPublished(links[i].dirs)
           ELSE FirstPublished(links[i].label_dirs) : i \in 1..Len(links)}
Greatest(versions) == CHOOSE v \in versions : \A w \in versions : Weight(w) <= Weight(v)
Reverse(seq) == [i \in 1..Len(seq) |-> seq[Len(seq) + 1 - i]]

\* C14 as claimed: the version is that of the greatest directory of status
\* 60 among all targets and all labels.
C14_GreatestOfAll ==
    (Parsed("ETSI") /\ AllPublished(document.response.links) # {}) =>
        extracted.version = VerStr(Greatest(AllPublished(document.response.links)))

\* C14 as amended: the version is that of the greatest (major, minor, patch)
\* among what the links contribute, each link its target's first directory
\* of status 60 or else its label's; the links in the reverse order yield
\* the same; the targets 02.02.02_60 and 02.03.01_60 yield V2.3.1.
C14_GreatestCollected ==
    (Parsed("ETSI") /\ Collected(document.response.links) # {}) =>
        /\ extracted.version = VerStr(Greatest(Collected(document.response.links)))
        /\ EtsiExtract([document.response EXCEPT !.links = Reverse(@)]) = extracted
        /\ (\E i, j \in 1..Len(document.response.links) :
                /\ document.response.links[i] = Link(<<Dir(2, 2, 2, 60)>>, << >>, FALSE, << >>)
                /\ document.response.links[j] = Link(<<Dir(2, 3, 1, 60)>>, << >>, FALSE, << >>)
                /\ Len(document.response.links) = 2)
              => extracted.version = "V2.3.1"

C14_Witness ==
    /\ Parsed("ETSI")
    /\ document.response.links = << Link(<<Dir(2, 3, 1, 60)>>, << >>, FALSE, << >>),
                                    Link(<<Dir(2, 2, 2, 60)>>, << >>, FALSE, << >>),
                                    Link(<<Dir(2, 4, 1, 40)>>, << >>, FALSE, << >>) >>
    /\ extracted.version = "V2.3.1"

\* C15: an ISED page whose rendered text holds an issue number and a date
\* yields "Issue N (date)"; when the rendered text holds no issue number
\* the raw document is searched, and an issue number found there forms the
\* token with the date of the text; when no issue number is found anywhere
\* the version is the fingerprint of the raw document; the text "Issue 4"
\* and "July 24, 2025" yields "Issue 4 (July 24, 2025)".
C15_IsedChain ==
    Parsed("ISED") =>
        LET date == IF DateSearchFull(Rendered) # NoneV THEN DateSearchFull(Rendered)
                    ELSE DateSearchMonthYear(Rendered)
        IN  /\ (HasIssue(Rendered) /\ HasDate(Rendered)) =>
                    extracted.version = "Issue " \o IssueSearch(Rendered) \o " (" \o date \o ")"
            /\ (~HasIssue(Rendered) /\ RawHasIssue /\ HasDate(Rendered)) =>
                    extracted.version =
                        "Issue " \o RawIssueSearch(document.response.segs) \o " (" \o date \o ")"
            /\ (~HasIssue(Rendered) /\ ~RawHasIssue) =>
                    extracted.version = Fingerprint(document.response.body)
            /\ document.response.segs =
                    << Text(<<IssueWord, Num("4", 1)>>),
                       Text(<<Month("July"), NumComma("24", 2), Num("2025", 4)>>) >>
                  => extracted.version = "Issue 4 (July 24, 2025)"

C15_Witness ==
    /\ Parsed("ISED")
    /\ ~HasIssue(Rendered)
    /\ RawHasIssue
    /\ extracted.version = "Issue 7 (February 2019)"

\* the rungs of the eCFR response: the date of the first version entry, and
\* the two dates of the metadata
FirstVersionDate ==
    LET data == document.response.data
    IN  IF Has(data, "content_versions") /\ Len(data["content_versions"]) > 0
        THEN Get(data["content_versions"][1], "date", "")
        ELSE ""
MetaHas(key) ==
    /\ Has(document.response.data, "meta")
    /\ Has(document.response.data["meta"], key)

\* C30: the version of an eCFR response is the date of its first version
\* entry when there is one and it is not empty; otherwise the issue date of
\* the metadata when the metadata has one; otherwise the amendment date of
\* the metadata when it has one; otherwise the fingerprint of the body.
C30_EcfrFallbackOrder ==
    Parsed("FCC_CFR") =>
        extracted.version =
            (IF Truthy(FirstVersionDate) THEN FirstVersionDate
             ELSE IF MetaHas("latest_issue_date")
                  THEN document.response.data["meta"]["latest_issue_date"]
             ELSE IF MetaHas("latest_amendment_date")
                  THEN document.response.data["meta"]["latest_amendment_date"]
             ELSE Fingerprint(document.response.body))

\* the first entry has no date and the metadata has both dates: the issue
\* date is the version
C30_Witness ==
    /\ Parsed("FCC_CFR")
    /\ Has(document.response.data, "content_versions")
    /\ Len(document.response.data["content_versions"]) > 0
    /\ ~Truthy(FirstVersionDate)
    /\ MetaHas("latest_issue_date")
    /\ MetaHas("latest_amendment_date")
    /\ extracted.version = "2025-02-02"

\* the rungs of an ETSI page: a directory of status 60 in a target or a
\* label, an attachment whose name holds a version code, a version stated in
\* the text
HasDirectory == AllPublished(document.response.links) # {}
Attachments ==
    {i \in 1..Len(document.response.links) :
        document.response.links[i].pdf /\ document.response.links[i].vcode # << >>}
Stated == {i \in 1..Len(document.response.words) : document.response.words[i].cls \in {"Version", "V"}}
First(S) == CHOOSE i \in S : \A j \in S : i <= j

\* C31: the version of an ETSI page is that of a published directory when
\* the page has one; the code of its first attachment only when it has
\* none; the version its text states only when it has no attachment code
\* either; and the fingerprint only when it has none of the three.
C31_EtsiFallbackOrder ==
    Parsed("ETSI") =>
        IF HasDirectory
        THEN extracted.version \in {VerStr(v) : v \in AllPublished(document.response.links)}
        ELSE IF Attachments # {}
        THEN extracted.version = VerStr(document.response.links[First(Attachments)].vcode)
        ELSE IF Stated # {}
        THEN extracted.version = "V" \o document.response.words[First(Stated)].num
        ELSE extracted.version = Fingerprint(document.response.body)

\* no published directory, an attachment with the code 020401 and a text that
\* states version 2.2.2: the attachment's code is the version
C31_Witness ==
    /\ Parsed("ETSI")
    /\ ~HasDirectory
    /\ Attachments # {}
    /\ Stated # {}
    /\ document.response.words[First(Stated)].num = "2.2.2"
    /\ extracted.version = "V2.4.1"

Outcomes == {"Unchanged", "Updated", "FirstRecord", "Failed"}

\* C32: a run goes through its standards in catalog order, each step of the
\* loop ending the check of exactly the standard it is at, once, with one
\* of the four outcomes and one more on exactly one of the two counters; so
\* when the loop is over, and from then on in the run, every standard has
\* its outcome and checked_count + error_count is the number of standards.
C32_EveryStandardOnce ==
    /\ [](((pc = "loop" /\ idx > Len(Standards(history))) \/ Recorded) =>
            /\ \A i \in Checked : result[i] \in Outcomes
            /\ checked_count = Cardinality(Ending(Outcomes \ {"Failed"}))
            /\ error_count = Cardinality(Ending({"Failed"}))
            /\ checked_count + error_count = Len(Standards(history)))
    /\ [][(pc \in {"loop", "fetch"} /\ pc' \in {"loop", "fetch"} /\ result' # result) =>
            /\ result[idx] = "Pending"
            /\ result'[idx] \in Outcomes
            /\ \A i \in Checked : i # idx => result'[i] = result[i]
            /\ \A i \in Checked : i < idx => result[i] # "Pending"
            /\ \A i \in Checked : i > idx => result[i] = "Pending"
            /\ idx' = idx + 1
            /\ checked_count' + error_count' = checked_count + error_count + 1]_vars

\* a completed run over two standards, one recorded for the first time and
\* one that could not be obtained
C32_Witness ==
    /\ pc = "done"
    /\ Len(Standards(history)) = NumStd
    /\ result[1] = "FirstRecord"
    /\ result[NumStd] = "Failed"
    /\ checked_count + error_count = NumStd
    /\ error_count >= 1

\* the entries of a change log that are of the standard, newest first
EntriesOf(log, standard) == SelectSeq(log, LAMBDA e : e.id = StdId(standard))

\* the log and the baselines of one snapshot agree
Consistent(snapshot) ==
    \A i \in 1..Len(Standards(snapshot)) :
        LET standard == Standards(snapshot)[i]
            entries == EntriesOf(Get(snapshot, "update_history", << >>), standard)
        IN  entries # << >> =>
                /\ entries[1].new_version = standard.current_version
                /\ \A k \in 1..(Len(entries) - 1) :
                        entries[k + 1].new_version = entries[k].old_version

\* C33: every snapshot the engine writes, in any sequence of runs over a
\* file whose change log had no entry of the catalog's standards, has for
\* each standard with entries its newest entry's new_version equal to its
\* current_version, and each older entry's new_version equal to the
\* old_version of the entry that follows it in time.
C33_LogMatchesBaseline ==
    [][(disk' # disk /\ disk'.state = "ok") => Consistent(disk'.data)]_vars

\* a standard was found changed in two runs in a row: the file holds both
\* entries, the older one ending where the newer one begins
C33_Witness ==
    /\ pc = "done"
    /\ run = 2
    /\ disk.state = "ok"
    /\ \E i \in 1..NumStd :
        LET entries == EntriesOf(LogOf(disk), Standards(disk.data)[i])
        IN  /\ Len(entries) = 2
            /\ entries[1].detected_at # entries[2].detected_at
            /\ entries[2].new_version = entries[1].old_version
            /\ entries[1].new_version = Standards(disk.data)[i].current_version

\* the entry tells of a change: a prior version, and a new one that differs
IsChange(e) ==
    /\ Truthy(e.old_version)
    /\ Truthy(e.new_version)
    /\ e.new_version # e.old_version

\* C34: every event a run queues, and every entry of a change log it
\* writes, has a prior version that is neither null nor empty and a new
\* version that differs from it; the event is queued by the check of a
\* standard that had that prior version, and a check that ends as
\* FirstRecord queues none.
C34_EventsAreChanges ==
    /\ [](\A k \in 1..Len(updates) : IsChange(updates[k]))
    /\ [][(updates' # updates /\ updates' # << >>) =>
            /\ Len(updates') = Len(updates) + 1
            /\ SubSeq(updates', 1, Len(updates)) = updates
            /\ updates'[Len(updates')].old_version = Standards(history)[idx].current_version
            /\ Truthy(Standards(history)[idx].current_version)
            /\ result'[idx] = "Updated"]_vars
    /\ [][(pc \in {"loop", "fetch"} /\ idx \in Checked /\ result' # result
                /\ result'[idx] = "FirstRecord") => updates' = updates]_vars
    /\ [][(disk' # disk /\ disk'.state = "ok") =>
            \A k \in 1..Len(LogOf(disk')) : IsChange(LogOf(disk')[k])]_vars

\* one standard was seen for the first time and one was found changed: the
\* run queued and wrote one event, that of the change
C34_Witness ==
    /\ pc = "done"
    /\ result[1] = "FirstRecord"
    /\ result[NumStd] = "Updated"
    /\ Len(updates) = 1
    /\ updates[1].id = StdId(Now(NumStd))
    /\ LogOf(disk)[1] = updates[1]

\* the entries of a change log that the previous run detected
FromPreviousRun(log) ==
    {k \in 1..Len(log) :
        TimeOf(log[k].detected_at) \in RunStart(run - 1)..(RunStart(run) - 1)}

\* C35: when the previous run dispatched an updates notification and no
\* channel delivered it, the changes it told of are in the state file this
\* run started from, each as an entry whose new_version is the baseline of
\* its standard; and in this run a standard whose fetch returns the
\* document it returned in the previous run ends as Unchanged or Failed,
\* with no event queued and none in any message sent.
C35_NotifiedAtMostOnce ==
    (prevEnd = "done" /\ prevDelivered = "lost") =>
        /\ diskAtStart.state = "ok"
        /\ FromPreviousRun(LogOf(diskAtStart)) # {}
        /\ \A k \in FromPreviousRun(LogOf(diskAtStart)) :
            \E i \in 1..Len(Standards(diskAtStart.data)) :
                /\ StdId(Standards(diskAtStart.data)[i]) = LogOf(diskAtStart)[k].id
                /\ Standards(diskAtStart.data)[i].current_version = LogOf(diskAtStart)[k].new_version
        /\ \A i \in Checked :
            (pc \in {"loop", "fetch", "save", "dump", "notify", "heartbeat", "done"}
                    /\ fetched[i] # 0 /\ fetched[i] = prevFetched[i] /\ result[i] # "Pending") =>
                /\ result[i] \in {"Unchanged", "Failed"}
                /\ EventsOf(updates, StdId(Now(i))) = {}
                /\ \A m \in 1..Len(sent) :
                        sent[m].kind = "updates" =>
                            EventsOf(sent[m].body.events, StdId(Now(i))) = {}

\* the first run found a change and neither channel delivered the message;
\* the second run, over the same documents, has completed without an
\* updates notification
C35_Witness ==
    /\ pc = "done"
    /\ run = 2
    /\ prevEnd = "done"
    /\ prevDelivered = "lost"
    /\ fetched = prevFetched
    /\ \E i \in Checked : result[i] = "Unchanged"
    /\ updates = << >>
    /\ SendsOf("updates") = << >>

\* ------------------------------------------------------------ C36
\* main is in its handler, or has re-raised
Handling == pc \in {"handler", "h_save", "h_dump", "h_notify", "raised"}

\* the two documents differ in nothing but the last_run_time and the status
\* of their metadata
OnlyFailFields(old, new) ==
    /\ DOMAIN new = DOMAIN old
    /\ \A k \in DOMAIN old \ {"metadata"} : new[k] = old[k]
    /\ DOMAIN new["metadata"] = DOMAIN old["metadata"] \cup {"last_run_time", "status"}
    /\ \A k \in DOMAIN old["metadata"] \ {"last_run_time", "status"} :
            new["metadata"][k] = old["metadata"][k]

\* C36: when run_monitor raises before its save_history call, nothing it
\* held in memory reaches the file or a notification: the handler works on
\* the document it reloads, which is the one the run started from with only
\* metadata.last_run_time and metadata.status set; once that is written the
\* standards (current_version and last_checked included) and the change log
\* of the file are those of the file before the run, whatever the run had
\* detected, and until it is written the file is untouched.
C36_FailureFrame ==
    /\ [](Handling =>
            /\ updates = << >>
            /\ SendsOf("updates") = << >>
            /\ pc \in {"h_save", "h_dump"} => OnlyFailFields(LoadHistory(diskAtStart), history)
            /\ fail_write = "written" =>
                /\ disk.state = "ok"
                /\ OnlyFailFields(LoadHistory(diskAtStart), disk.data)
                /\ Standards(disk.data) = Standards(LoadHistory(diskAtStart))
                /\ LogOf(disk) = LogOf(diskAtStart))
    /\ [][(pc = "loop" /\ pc' = "handler") => (disk = diskAtStart /\ disk' = disk)]_vars
    /\ [][(pc = "handler" /\ disk = diskAtStart) => disk' = disk]_vars

\* a run that had recorded a new version for a standard raised in the loop,
\* and the handler's write went through: the file holds the version it held
\* before the run
C36_Witness ==
    /\ pc = "raised"
    /\ fail_write = "written"
    /\ \E i \in 1..NumStd :
        /\ result[i] \in {"Updated", "FirstRecord"}
        /\ Standards(disk.data)[i].current_version = Standards(diskAtStart.data)[i].current_version
        /\ Standards(disk.data)[i].last_checked = Standards(diskAtStart.data)[i].last_checked
    /\ Get(disk.data["metadata"], "status", NoneV) = "fail"

\* ------------------------------------------------------------ C37
\* C37: when the handler's write of status = fail fails (the reload raises,
\* the reloaded document has no metadata, or the save raises), the exception
\* is swallowed and the state file is the file the handler found; the error
\* notification is then sent on both channels, once, and not before the
\* write was tried, and main re-raises.
C37_SwallowedWriteLeavesFile ==
    /\ (pc \in {"h_notify", "raised"} /\ fail_write = "swallowed") => disk = diskAtHandler
    /\ (pc = "raised" /\ fail_write = "swallowed") => NotifiedOnce("error")
    /\ (pc = "h_notify" /\ fail_write = "swallowed") => SendsOf("error") = << >>

====
